---- MODULE Spec2Model ----
(***************************************************************************)
(* cabot: the HTTP/1.1 message codec (src/request.rs, src/response.rs).    *)
(*                                                                         *)
(* Text and payloads are sequences of bytes (0..255), so that a byte       *)
(* length, a UTF-8 decode and a split at a space are computed, not         *)
(* assumed.  Option<T> is a sequence of length 0 (None) or 1 (Some), and   *)
(* CabotResult<T> is a record [ok, val] or [ok, kind, msg, arg].           *)
(*                                                                         *)
(* RequestBuilder, ResponseBuilder and Request share no state, so a        *)
(* behaviour exercises one of them: obj names the object the caller        *)
(* constructed, and the other objects stay as constructed.                 *)
(***************************************************************************)
EXTENDS Integers, Sequences, FiniteSets, TLC

VARIABLES obj, rb, req, respb, resp, out, added, ua_log, url_log, resp_log,
          dirty, calls

vars ==
  <<obj, rb, req, respb, resp, out, added, ua_log, url_log, resp_log, dirty, calls>>

\* The number of setter calls made on a builder in one behaviour.
MaxSetterCalls == 3

----------------------------------------------------------------------------
(* Option and CabotResult *)

None == << >>

Some(x) == <<x>>

is_some(o) == Len(o) = 1

is_none(o) == Len(o) = 0

unwrap(o) == o[1]

Ok(v) == [ok |-> TRUE, val |-> v]

Err(kind, msg, arg) == [ok |-> FALSE, kind |-> kind, msg |-> msg, arg |-> arg]

----------------------------------------------------------------------------
(* Text: byte sequences *)

\* "\r\n"
CRLF == <<13, 10>>

\* " "
SP == <<32>>

\* "GET"
GET == <<71, 69, 84>>

\* "POST"
POST == <<80, 79, 83, 84>>

\* "HTTP/1.1"
HTTP_1_1 == <<72, 84, 84, 80, 47, 49, 46, 49>>

\* "HTTP/1.0"
HTTP_1_0 == <<72, 84, 84, 80, 47, 49, 46, 48>>

\* "HTTP/"
HTTP_SLASH == <<72, 84, 84, 80, 47>>

\* constants::USER_AGENT, "cabot/0.1.1"
USER_AGENT == <<99, 97, 98, 111, 116, 47, 48, 46, 49, 46, 49>>

\* "User-Agent: "
USER_AGENT_COLON == <<85, 115, 101, 114, 45, 65, 103, 101, 110, 116, 58, 32>>

\* "Host: "
HOST_COLON == <<72, 111, 115, 116, 58, 32>>

\* "Connection: close\r\n"
CONNECTION_CLOSE == <<67, 111, 110, 110, 101, 99, 116, 105, 111, 110, 58, 32,
                      99, 108, 111, 115, 101, 13, 10>>

\* "Content-Length: "
CONTENT_LENGTH_COLON == <<67, 111, 110, 116, 101, 110, 116, 45, 76, 101, 110,
                          103, 116, 104, 58, 32>>

\* [T]::join(sep): the items with sep between them.
RECURSIVE join(_, _)
join(items, sep) ==
  IF Len(items) = 0 THEN << >>
  ELSE IF Len(items) = 1 THEN items[1]
  ELSE items[1] \o sep \o join(Tail(items), sep)

\* format!("{}", n) of an unsigned integer: its decimal digits.
RECURSIVE fmt_uint(_)
fmt_uint(n) ==
  IF n < 10 THEN <<48 + n>> ELSE fmt_uint(n \div 10) \o <<48 + (n % 10)>>

\* str::starts_with
starts_with(s, prefix) ==
  /\ Len(s) >= Len(prefix)
  /\ SubSeq(s, 1, Len(prefix)) = prefix

\* The width of the UTF-8 sequence a lead byte opens (0: not a lead byte).
utf8_char_width(b) ==
  IF b < 128 THEN 1
  ELSE IF b >= 194 /\ b <= 223 THEN 2
  ELSE IF b >= 224 /\ b <= 239 THEN 3
  ELSE IF b >= 240 /\ b <= 244 THEN 4
  ELSE 0

utf8_cont(b) == b >= 128 /\ b <= 191

\* String::from_utf8(bytes).is_ok(): strict UTF-8 (no overlong forms, no
\* surrogates, nothing above U+10FFFF, no truncated sequence).
RECURSIVE from_utf8_is_ok(_)
from_utf8_is_ok(bytes) ==
  IF Len(bytes) = 0 THEN TRUE
  ELSE
    LET first == bytes[1]
        w == utf8_char_width(first)
        rest == SubSeq(bytes, w + 1, Len(bytes))
    IN  IF w = 0 \/ Len(bytes) < w THEN FALSE
        ELSE IF w = 1 THEN from_utf8_is_ok(rest)
        ELSE IF w = 2 THEN utf8_cont(bytes[2]) /\ from_utf8_is_ok(rest)
        ELSE IF w = 3 THEN
          /\ \/ first = 224 /\ bytes[2] >= 160 /\ bytes[2] <= 191
             \/ first >= 225 /\ first <= 236 /\ utf8_cont(bytes[2])
             \/ first = 237 /\ bytes[2] >= 128 /\ bytes[2] <= 159
             \/ first >= 238 /\ first <= 239 /\ utf8_cont(bytes[2])
          /\ utf8_cont(bytes[3])
          /\ from_utf8_is_ok(rest)
        ELSE
          /\ \/ first = 240 /\ bytes[2] >= 144 /\ bytes[2] <= 191
             \/ first >= 241 /\ first <= 243 /\ utf8_cont(bytes[2])
             \/ first = 244 /\ bytes[2] >= 128 /\ bytes[2] <= 143
          /\ utf8_cont(bytes[3])
          /\ utf8_cont(bytes[4])
          /\ from_utf8_is_ok(rest)

----------------------------------------------------------------------------
(* Inputs *)

\* "A: b" and "X: y", two raw header lines
H1 == <<65, 58, 32, 98>>

H2 == <<88, 58, 32, 121>>

HeaderLines == {H1, H2}

\* The slices given to add_headers.
HeaderBatches == {<< >>, <<H2, H1>>}

\* "anonymized" shortened to "anon"
UserAgents == {<<97, 110, 111, 110>>}

\* The method given to set_http_method, and those of a Request made directly.
Methods == {POST}

DirectMethods == {GET, POST}

\* The version given to set_http_version.
Versions == {HTTP_1_0}

\* Payloads given to set_body: empty, "{}", and 0xFF (not UTF-8).
Bodies == {<< >>, <<123, 125>>, <<255>>}

\* The text given to set_body_as_str: "hé" (3 bytes, 2 characters).
Strs == {<<104, 195, 169>>}

\* More payloads for a Request handed to the serializer directly: "é", "€{"
\* (4 bytes, 2 characters), a truncated sequence, an overlong form, a
\* surrogate, and valid text followed by a bad byte.
MoreBodies ==
  Bodies \cup Strs \cup
    {<<195, 169>>, <<226, 130, 172, 123>>, <<195>>, <<192, 128>>,
     <<237, 160, 128>>, <<123, 128>>}

----------------------------------------------------------------------------
(* URLs: what url.parse::<Url>() and the Url accessors return (url crate) *)

Urls == {"http://localhost/", "https://localhost/", "http://127.0.0.1:8080/p?q",
         "http://[::1]/path", "not_an_url", "mailto:a@b", "foo://bar/"}

\* The URLs given to RequestBuilder::new; set_url is given any of Urls.
NewUrls == {"http://localhost/", "not_an_url"}

\* "http", "https"
HTTP == <<104, 116, 116, 112>>

HTTPS == <<104, 116, 116, 112, 115>>

\* "localhost"
LOCALHOST == <<108, 111, 99, 97, 108, 104, 111, 115, 116>>

\* "127.0.0.1"
LOOPBACK4 == <<49, 50, 55, 46, 48, 46, 48, 46, 49>>

\* "[::1]"
LOOPBACK6 == <<91, 58, 58, 49, 93>>

\* "/"
SLASH == <<47>>

Url(scheme, host, port, path, query) ==
  [scheme |-> scheme, host |-> host, port |-> port, path |-> path, query |-> query]

\* Host of a Url: Domain, Ipv4 or Ipv6, with the text host_str() gives.
Host(kind, text) == [kind |-> kind, text |-> text]

\* url.parse::<Url>() on the URLs above.
ParseUrl(u) ==
  CASE u = "http://localhost/" ->
         Ok(Url(HTTP, Some(Host("Domain", LOCALHOST)), None, SLASH, None))
    [] u = "https://localhost/" ->
         Ok(Url(HTTPS, Some(Host("Domain", LOCALHOST)), None, SLASH, None))
    [] u = "http://127.0.0.1:8080/p?q" ->
         Ok(Url(HTTP, Some(Host("Ipv4", LOOPBACK4)), Some(8080), <<47, 112>>,
                Some(<<113>>)))
    [] u = "http://[::1]/path" ->
         Ok(Url(HTTP, Some(Host("Ipv6", LOOPBACK6)), None,
                <<47, 112, 97, 116, 104>>, None))
    [] u = "mailto:a@b" ->
         Ok(Url(<<109, 97, 105, 108, 116, 111>>, None, None, <<97, 64, 98>>, None))
    [] u = "foo://bar/" ->
         Ok(Url(<<102, 111, 111>>, Some(Host("Domain", <<98, 97, 114>>)), None,
                SLASH, None))
    [] OTHER -> Err("ParseError", "relative URL without a base", << >>)

\* Url::port_or_known_default
port_or_known_default(url) ==
  IF is_some(url.port) THEN url.port
  ELSE IF url.scheme = HTTP THEN Some(80)
  ELSE IF url.scheme = HTTPS THEN Some(443)
  ELSE None

\* Url::domain as it would be if it were host_str: any host counts as a name.
domain_AnyHost(url) ==
  IF is_some(url.host) THEN Some(unwrap(url.host).text) ELSE None

\* Url::domain: the host when it is a domain name, not an IP address.
domain(url) ==
  IF is_some(url.host) /\ unwrap(url.host).kind = "Domain"
  THEN Some(unwrap(url.host).text)
  ELSE None

\* Url::host_str
host_str(url) == IF is_some(url.host) THEN Some(unwrap(url.host).text) ELSE None

----------------------------------------------------------------------------
(* Request *)

Request_new(host, port, authority, is_domain, scheme, http_method, request_uri, http_version, headers, body) ==
  [host |-> host, port |-> port, authority |-> authority, is_domain |-> is_domain,
   scheme |-> scheme, http_method |-> http_method, request_uri |-> request_uri,
   http_version |-> http_version, headers |-> headers, body |-> body]

\* Request::body_as_string as it would be if it treated a missing body as
\* Response::body_as_string does.
Request_body_as_string_EmptyForNone(self) ==
  IF is_none(self.body) THEN Ok(Some(<< >>))
  ELSE IF ~from_utf8_is_ok(unwrap(self.body))
    THEN Err("EncodingError", "Cannot decode utf8: ", << >>)
  ELSE Ok(Some(unwrap(self.body)))

\* Request::body_as_string: CabotResult<Option<String>>
Request_body_as_string(self) ==
  IF is_none(self.body) THEN Ok(None)
  ELSE IF ~from_utf8_is_ok(unwrap(self.body))
    THEN Err("EncodingError", "Cannot decode utf8: ", << >>)
  ELSE Ok(Some(unwrap(self.body)))

\* Request::to_string as it would be without the headers.len() > 0 test.
Request_to_string_AlwaysJoins(self) ==
  LET text == Request_body_as_string(self)
  IN  self.http_method \o SP \o self.request_uri \o SP \o self.http_version \o CRLF
        \o join(self.headers, CRLF) \o CRLF
        \o (IF self.is_domain THEN HOST_COLON \o self.host \o CRLF ELSE << >>)
        \o CONNECTION_CLOSE
        \o (IF text.ok /\ is_some(text.val)
            THEN CONTENT_LENGTH_COLON \o fmt_uint(Len(unwrap(text.val))) \o CRLF
                   \o CRLF \o unwrap(text.val)
            ELSE CRLF)

\* Request::to_string
Request_to_string(self) ==
  LET line == self.http_method \o SP \o self.request_uri \o SP
                \o self.http_version \o CRLF
      hdrs == IF Len(self.headers) > 0
              THEN join(self.headers, CRLF) \o CRLF ELSE << >>
      host == IF self.is_domain THEN HOST_COLON \o self.host \o CRLF ELSE << >>
      text == Request_body_as_string(self)
      tail == IF text.ok /\ is_some(text.val)
              THEN CONTENT_LENGTH_COLON \o fmt_uint(Len(unwrap(text.val))) \o CRLF
                     \o CRLF \o unwrap(text.val)
              ELSE CRLF
  IN  line \o hdrs \o host \o CONNECTION_CLOSE \o tail

----------------------------------------------------------------------------
(* RequestBuilder *)

RequestBuilder_new(u) ==
  [http_method |-> GET, user_agent |-> USER_AGENT, url |-> ParseUrl(u),
   http_version |-> HTTP_1_1, headers |-> << >>, body |-> None]

\* RequestBuilder::build as it would be if it looked for the port before the
\* host.
RequestBuilder_build_value_PortFirst(self) ==
  IF ~self.url.ok THEN Err("UrlParseError", self.url.msg, << >>)
  ELSE
    LET url == self.url.val
        host == host_str(url)
        port == port_or_known_default(url)
    IN  IF is_none(port)
        THEN Err("OpaqueUrlError", "Unable to determine a port", << >>)
        ELSE IF is_none(host)
        THEN Err("OpaqueUrlError", "Unable to find host", << >>)
        ELSE Ok(Request_new(unwrap(host), unwrap(port),
                            unwrap(host) \o <<58>> \o fmt_uint(unwrap(port)),
                            ~is_none(domain(url)), url.scheme, self.http_method,
                            IF is_some(url.query)
                            THEN url.path \o <<63>> \o unwrap(url.query)
                            ELSE url.path,
                            self.http_version,
                            Append(self.headers, USER_AGENT_COLON \o self.user_agent),
                            self.body))

\* The value RequestBuilder::build returns for the builder self.
RequestBuilder_build_value(self) ==
  IF ~self.url.ok THEN Err("UrlParseError", self.url.msg, << >>)
  ELSE
    LET url == self.url.val
        host == host_str(url)
        port == port_or_known_default(url)
        request_uri == IF is_some(url.query)
                       THEN url.path \o <<63>> \o unwrap(url.query)
                       ELSE url.path
        is_domain == ~is_none(domain(url))
        headers == Append(self.headers, USER_AGENT_COLON \o self.user_agent)
    IN  IF is_none(host) THEN Err("OpaqueUrlError", "Unable to find host", << >>)
        ELSE IF is_none(port)
          THEN Err("OpaqueUrlError", "Unable to determine a port", << >>)
        ELSE Ok(Request_new(unwrap(host), unwrap(port),
                            unwrap(host) \o <<58>> \o fmt_uint(unwrap(port)),
                            is_domain, url.scheme, self.http_method, request_uri,
                            self.http_version, headers, self.body))

----------------------------------------------------------------------------
(* Response and ResponseBuilder *)

Response_new(status_code, status_line, headers, body) ==
  [status_code |-> status_code, status_line |-> status_line,
   headers |-> headers, body |-> body]

Response_status_code(self) == self.status_code

Response_status_line(self) == self.status_line

\* Response::body_as_string: CabotResult<String>
Response_body_as_string(self) ==
  IF is_none(self.body) THEN Ok(<< >>)
  ELSE IF ~from_utf8_is_ok(unwrap(self.body))
    THEN Err("EncodingError", "Cannot decode utf8: ", << >>)
  ELSE Ok(unwrap(self.body))

ResponseBuilder_new ==
  [status_line |-> None, headers |-> << >>, body |-> None]

\* The index of the first space of s, 0 when it has none.
find_space(s) ==
  IF \E i \in 1..Len(s) : s[i] = 32
  THEN CHOOSE i \in 1..Len(s) : s[i] = 32 /\ \A j \in 1..(i - 1) : s[j] # 32
  ELSE 0

\* str::splitn(n, " "): at most n parts, cut at single spaces from the left;
\* the last part is the remainder.
RECURSIVE splitn(_, _)
splitn(n, s) ==
  IF n <= 1 \/ find_space(s) = 0 THEN <<s>>
  ELSE <<SubSeq(s, 1, find_space(s) - 1)>>
         \o splitn(n - 1, SubSeq(s, find_space(s) + 1, Len(s)))

\* "18446744073709551615", usize::MAX (64-bit)
USIZE_MAX == <<49, 56, 52, 52, 54, 55, 52, 52, 48, 55, 51, 55, 48, 57, 53, 53,
               49, 54, 49, 53>>

RECURSIVE strip_zeros(_)
strip_zeros(digits) ==
  IF Len(digits) > 1 /\ digits[1] = 48 THEN strip_zeros(Tail(digits)) ELSE digits

\* Lexicographic a <= b on digit strings of one length.
RECURSIVE digits_le(_, _)
digits_le(a, b) ==
  IF Len(a) = 0 THEN TRUE
  ELSE IF a[1] # b[1] THEN a[1] < b[1]
  ELSE digits_le(Tail(a), Tail(b))

fits_usize(digits) ==
  LET d == strip_zeros(digits)
  IN  \/ Len(d) < Len(USIZE_MAX)
      \/ Len(d) = Len(USIZE_MAX) /\ digits_le(d, USIZE_MAX)

RECURSIVE digits_value(_)
digits_value(digits) ==
  IF Len(digits) = 0 THEN 0
  ELSE 10 * digits_value(SubSeq(digits, 1, Len(digits) - 1))
         + (digits[Len(digits)] - 48)

\* str::parse::<usize>(): an optional "+", then one or more decimal digits,
\* the value no more than usize::MAX.  None stands for Err(ParseIntError).
parse_usize(s) ==
  LET digits == IF Len(s) > 0 /\ s[1] = 43 THEN Tail(s) ELSE s
  IN  IF Len(digits) = 0 THEN None
      ELSE IF \E i \in 1..Len(digits) : digits[i] < 48 \/ digits[i] > 57 THEN None
      ELSE IF ~fits_usize(digits) THEN None
      ELSE Some(digits_value(digits))

\* ResponseBuilder::build as it would be if it dropped the code from the
\* status text as well as the protocol.
ResponseBuilder_build_value_ReasonOnly(self) ==
  IF is_none(self.status_line)
  THEN Err("HttpResponseParseError", "No Status Line", << >>)
  ELSE
    LET status_line == unwrap(self.status_line)
        vec_status_line == splitn(3, status_line)
    IN  IF Len(vec_status_line) # 3
        THEN Err("HttpResponseParseError", "Malformed Status Line: ", status_line)
        ELSE IF ~starts_with(vec_status_line[1], HTTP_SLASH)
        THEN Err("HttpResponseParseError",
                 "Unkown Protocol in Status Line: ", status_line)
        ELSE IF is_none(parse_usize(vec_status_line[2]))
        THEN Err("HttpResponseParseError", "Malformed status code: ", status_line)
        ELSE Ok(Response_new(unwrap(parse_usize(vec_status_line[2])),
                             vec_status_line[3], self.headers, self.body))

\* ResponseBuilder::build as it would be if it parsed the code before it
\* looked at the protocol.
ResponseBuilder_build_value_CodeFirst(self) ==
  IF is_none(self.status_line)
  THEN Err("HttpResponseParseError", "No Status Line", << >>)
  ELSE
    LET status_line == unwrap(self.status_line)
        vec_status_line == splitn(3, status_line)
    IN  IF Len(vec_status_line) # 3
        THEN Err("HttpResponseParseError", "Malformed Status Line: ", status_line)
        ELSE IF is_none(parse_usize(vec_status_line[2]))
        THEN Err("HttpResponseParseError", "Malformed status code: ", status_line)
        ELSE IF ~starts_with(vec_status_line[1], HTTP_SLASH)
        THEN Err("HttpResponseParseError",
                 "Unkown Protocol in Status Line: ", status_line)
        ELSE Ok(Response_new(unwrap(parse_usize(vec_status_line[2])),
                             join(Tail(vec_status_line), SP),
                             self.headers, self.body))

\* The value ResponseBuilder::build returns for the builder self.
ResponseBuilder_build_value(self) ==
  IF is_none(self.status_line)
  THEN Err("HttpResponseParseError", "No Status Line", << >>)
  ELSE
    LET status_line == unwrap(self.status_line)
        vec_status_line == splitn(3, status_line)
    IN  IF Len(vec_status_line) # 3
        THEN Err("HttpResponseParseError", "Malformed Status Line: ", status_line)
        ELSE
          LET http_version == vec_status_line[1]
              rest == Tail(vec_status_line)
              status_code == parse_usize(rest[1])
          IN  IF ~starts_with(http_version, HTTP_SLASH)
              THEN Err("HttpResponseParseError",
                       "Unkown Protocol in Status Line: ", status_line)
              ELSE IF is_none(status_code)
              THEN Err("HttpResponseParseError", "Malformed status code: ",
                       status_line)
              ELSE Ok(Response_new(unwrap(status_code), join(rest, SP),
                                   self.headers, self.body))

\* Status lines: protocol, separator, code, tail, in every combination.
\* "HTTP/1.1", "FTP/1"
Protocols == {HTTP_1_1, <<70, 84, 80, 47, 49>>}

\* " ", "  "
Separators == {<<32>>, <<32, 32>>}

\* "200", "abc"
Codes == {<<50, 48, 48>>, <<97, 98, 99>>}

\* "", " ", " OK", " No  Go" (two spaces inside the reason)
Tails == {<< >>, <<32>>, <<32, 79, 75>>, <<32, 78, 111, 32, 32, 71, 111>>}

\* "HTTP/1.1 18446744073709551616 x": the code is usize::MAX + 1.
OverflowLine ==
  HTTP_1_1 \o SP \o SubSeq(USIZE_MAX, 1, 19) \o <<54>> \o <<32, 120>>

\* "HTTP/1.1\t200\tOK": tabs where the spaces belong.
TabLine == HTTP_1_1 \o <<9, 50, 48, 48, 9, 79, 75>>

\* "HTTP/1.1 +7 x": a plus sign before the code.
PlusLine == HTTP_1_1 \o <<32, 43, 55, 32, 120>>

StatusLines ==
  {p \o s \o c \o t : p \in Protocols, s \in Separators, c \in Codes, t \in Tails}
    \cup {<< >>, OverflowLine, TabLine, PlusLine}

----------------------------------------------------------------------------
(* State *)

\* obj    the object the caller constructed and works on
\* rb     the RequestBuilder
\* req    Option<CabotResult<Request>>: what the last RequestBuilder::build
\*        returned (or a Request made by Request::new)
\* respb  the ResponseBuilder
\* resp   Option<CabotResult<Response>>: what the last ResponseBuilder::build
\*        returned
\* out    what the last call returned when it was to_string or body_as_string
\* added  history: the header lines given to add_header and add_headers
\* ua_log history: the argument of the latest set_user_agent call, if any
\* url_log history: the argument of the latest new or set_url call
\* resp_log history: the arguments of the latest set_status_line and set_body
\*        calls on the ResponseBuilder, if any
\* dirty  history: a setter was called since the last build
\* calls  history: the number of setter calls

Returned(call, val) == [call |-> call, val |-> val]

\* The Requests handed to the serializer directly, as the unit tests do.
DirectRequests ==
  {Request_new(h[1], 80, h[1] \o <<58, 56, 48>>, h[2], HTTP, m, uri, HTTP_1_1, hs, b) :
     h \in {<<LOCALHOST, TRUE>>, <<LOOPBACK4, FALSE>>},
     m \in DirectMethods,
     uri \in {SLASH, <<47, 112, 63, 113>>},
     hs \in {<< >>, <<H1>>, <<H1, H2>>, <<H2, H1>>},
     b \in {None} \cup {Some(x) : x \in MoreBodies}}

InitRequestBuilder ==
  /\ obj = "RequestBuilder"
  /\ \E u \in NewUrls : rb = RequestBuilder_new(u) /\ url_log = u
  /\ req = None

InitRequest ==
  /\ obj = "Request"
  /\ rb = RequestBuilder_new("http://localhost/")
  /\ url_log = "http://localhost/"
  /\ \E r \in DirectRequests : req = Some(Ok(r))

InitResponseBuilder ==
  /\ obj = "ResponseBuilder"
  /\ rb = RequestBuilder_new("http://localhost/")
  /\ url_log = "http://localhost/"
  /\ req = None

Init ==
  /\ InitRequestBuilder \/ InitRequest \/ InitResponseBuilder
  /\ respb = ResponseBuilder_new
  /\ resp = None
  /\ out = None
  /\ added = << >>
  /\ ua_log = None
  /\ resp_log = [status_line |-> None, body |-> None]
  /\ dirty = FALSE
  /\ calls = 0

\* What every setter call does to the history.
Setter ==
  /\ calls < MaxSetterCalls
  /\ calls' = calls + 1
  /\ dirty' = TRUE
  /\ out' = None

----------------------------------------------------------------------------
(* RequestBuilder operations *)

\* set_url as it would be if it started the builder afresh for the URL.
RequestBuilder_set_url_Resets(u) ==
  /\ obj = "RequestBuilder"
  /\ Setter
  /\ rb' = RequestBuilder_new(u)
  /\ url_log' = u
  /\ UNCHANGED <<obj, req, respb, resp, added, ua_log, resp_log>>

RequestBuilder_set_url(u) ==
  /\ obj = "RequestBuilder"
  /\ Setter
  /\ rb' = [rb EXCEPT !.url = ParseUrl(u)]
  /\ url_log' = u
  /\ UNCHANGED <<obj, req, respb, resp, added, ua_log, resp_log>>

RequestBuilder_set_http_method(http_method) ==
  /\ obj = "RequestBuilder"
  /\ Setter
  /\ rb' = [rb EXCEPT !.http_method = http_method]
  /\ UNCHANGED <<obj, req, respb, resp, added, ua_log, url_log, resp_log>>

RequestBuilder_set_http_version(http_version) ==
  /\ obj = "RequestBuilder"
  /\ Setter
  /\ rb' = [rb EXCEPT !.http_version = http_version]
  /\ UNCHANGED <<obj, req, respb, resp, added, ua_log, url_log, resp_log>>

RequestBuilder_add_header(header) ==
  /\ obj = "RequestBuilder"
  /\ Setter
  /\ rb' = [rb EXCEPT !.headers = Append(@, header)]
  /\ added' = Append(added, header)
  /\ UNCHANGED <<obj, req, respb, resp, ua_log, url_log, resp_log>>

\* add_headers as it would be if it pushed the slice back to front.
RequestBuilder_add_headers_Reversed(headers) ==
  /\ obj = "RequestBuilder"
  /\ Setter
  /\ rb' = [rb EXCEPT !.headers =
              @ \o [i \in 1..Len(headers) |-> headers[Len(headers) + 1 - i]]]
  /\ added' = added \o headers
  /\ UNCHANGED <<obj, req, respb, resp, ua_log, url_log, resp_log>>

RequestBuilder_add_headers(headers) ==
  /\ obj = "RequestBuilder"
  /\ Setter
  /\ rb' = [rb EXCEPT !.headers = @ \o headers]
  /\ added' = added \o headers
  /\ UNCHANGED <<obj, req, respb, resp, ua_log, url_log, resp_log>>

RequestBuilder_set_user_agent(user_agent) ==
  /\ obj = "RequestBuilder"
  /\ Setter
  /\ rb' = [rb EXCEPT !.user_agent = user_agent]
  /\ ua_log' = Some(user_agent)
  /\ UNCHANGED <<obj, req, respb, resp, added, url_log, resp_log>>

RequestBuilder_set_body(buf) ==
  /\ obj = "RequestBuilder"
  /\ Setter
  /\ rb' = [rb EXCEPT !.body = Some(buf)]
  /\ UNCHANGED <<obj, req, respb, resp, added, ua_log, url_log, resp_log>>

\* set_body_as_str(body: &str) is set_body(body.as_bytes()).
RequestBuilder_set_body_as_str(body) == RequestBuilder_set_body(body)

\* build as it would be if it pushed the User-Agent line onto the builder's
\* own headers instead of onto a clone.
RequestBuilder_build_PushesOnSelf ==
  /\ obj = "RequestBuilder"
  /\ req' = Some(RequestBuilder_build_value(rb))
  /\ rb' = IF RequestBuilder_build_value(rb).ok
           THEN [rb EXCEPT !.headers = RequestBuilder_build_value(rb).val.headers]
           ELSE rb
  /\ dirty' = FALSE
  /\ out' = None
  /\ UNCHANGED <<obj, respb, resp, added, ua_log, url_log, calls, resp_log>>

RequestBuilder_build ==
  /\ obj = "RequestBuilder"
  /\ req' = Some(RequestBuilder_build_value(rb))
  /\ dirty' = FALSE
  /\ out' = None
  /\ UNCHANGED <<obj, rb, respb, resp, added, ua_log, url_log, calls, resp_log>>

HasRequest == is_some(req) /\ unwrap(req).ok

Call_Request_to_string ==
  /\ HasRequest
  /\ out' = Some(Returned("to_string", Request_to_string(unwrap(req).val)))
  /\ UNCHANGED <<obj, rb, req, respb, resp, added, ua_log, url_log, dirty, calls, resp_log>>

Call_Request_body_as_string ==
  /\ HasRequest
  /\ out' = Some(Returned("body_as_string", Request_body_as_string(unwrap(req).val)))
  /\ UNCHANGED <<obj, rb, req, respb, resp, added, ua_log, url_log, dirty, calls, resp_log>>

----------------------------------------------------------------------------
(* ResponseBuilder operations *)

\* set_status_line as it would be if it kept a status line already set.
ResponseBuilder_set_status_line_FirstWins(status_line) ==
  /\ obj = "ResponseBuilder"
  /\ Setter
  /\ respb' = IF is_some(respb.status_line) THEN respb
              ELSE [respb EXCEPT !.status_line = Some(status_line)]
  /\ resp_log' = [resp_log EXCEPT !.status_line = Some(status_line)]
  /\ UNCHANGED <<obj, rb, req, resp, added, ua_log, url_log>>

ResponseBuilder_set_status_line(status_line) ==
  /\ obj = "ResponseBuilder"
  /\ Setter
  /\ respb' = [respb EXCEPT !.status_line = Some(status_line)]
  /\ resp_log' = [resp_log EXCEPT !.status_line = Some(status_line)]
  /\ UNCHANGED <<obj, rb, req, resp, added, ua_log, url_log>>

ResponseBuilder_add_header(header) ==
  /\ obj = "ResponseBuilder"
  /\ Setter
  /\ respb' = [respb EXCEPT !.headers = Append(@, header)]
  /\ added' = Append(added, header)
  /\ UNCHANGED <<obj, rb, req, resp, ua_log, url_log, resp_log>>

ResponseBuilder_set_body(buf) ==
  /\ obj = "ResponseBuilder"
  /\ Setter
  /\ respb' = [respb EXCEPT !.body = Some(buf)]
  /\ resp_log' = [resp_log EXCEPT !.body = Some(buf)]
  /\ UNCHANGED <<obj, rb, req, resp, added, ua_log, url_log>>

ResponseBuilder_build ==
  /\ obj = "ResponseBuilder"
  /\ resp' = Some(ResponseBuilder_build_value(respb))
  /\ dirty' = FALSE
  /\ out' = None
  /\ UNCHANGED <<obj, rb, req, respb, added, ua_log, url_log, calls, resp_log>>

HasResponse == is_some(resp) /\ unwrap(resp).ok

Call_Response_body_as_string ==
  /\ HasResponse
  /\ out' = Some(Returned("body_as_string", Response_body_as_string(unwrap(resp).val)))
  /\ UNCHANGED <<obj, rb, req, respb, resp, added, ua_log, url_log, dirty, calls, resp_log>>

----------------------------------------------------------------------------

Next ==
  \/ \E u \in Urls : RequestBuilder_set_url(u)
  \/ \E m \in Methods : RequestBuilder_set_http_method(m)
  \/ \E v \in Versions : RequestBuilder_set_http_version(v)
  \/ \E h \in HeaderLines : RequestBuilder_add_header(h)
  \/ \E hs \in HeaderBatches : RequestBuilder_add_headers(hs)
  \/ \E ua \in UserAgents : RequestBuilder_set_user_agent(ua)
  \/ \E b \in Bodies : RequestBuilder_set_body(b)
  \/ \E b \in Strs : RequestBuilder_set_body_as_str(b)
  \/ RequestBuilder_build
  \/ Call_Request_to_string
  \/ Call_Request_body_as_string
  \/ \E l \in StatusLines : ResponseBuilder_set_status_line(l)
  \/ \E h \in HeaderLines : ResponseBuilder_add_header(h)
  \/ \E b \in Bodies : ResponseBuilder_set_body(b)
  \/ ResponseBuilder_build
  \/ Call_Response_body_as_string

Spec == Init /\ [][Next]_vars

----------------------------------------------------------------------------
(* Vocabulary of the properties *)

ends_with(s, suffix) ==
  /\ Len(s) >= Len(suffix)
  /\ SubSeq(s, Len(s) - Len(suffix) + 1, Len(s)) = suffix

\* The Request the last RequestBuilder::build (or Request::new) returned.
TheRequest == unwrap(req).val

\* The Response the last ResponseBuilder::build returned.
TheResponse == unwrap(resp).val

\* The last call was to_string, and it returned wire.
ToStringReturned == is_some(out) /\ unwrap(out).call = "to_string"

\* resp is what build returned for the ResponseBuilder as it is now.
ResponseBuilt == obj = "ResponseBuilder" /\ is_some(resp) /\ ~dirty

\* req is what build returned for the RequestBuilder as it is now.
RequestBuilt == obj = "RequestBuilder" /\ is_some(req) /\ ~dirty

IsWhitespace(b) == b = 32 \/ b = 9

\* The whitespace-separated tokens of a line.
RECURSIVE WsTokens(_)
WsTokens(line) ==
  IF Len(line) = 0 THEN << >>
  ELSE IF IsWhitespace(line[1]) THEN WsTokens(Tail(line))
  ELSE
    LET stops == {i \in 1..Len(line) : IsWhitespace(line[i])}
        n == IF stops = {} THEN Len(line)
             ELSE (CHOOSE i \in stops : \A j \in stops : i <= j) - 1
    IN  <<SubSeq(line, 1, n)>> \o WsTokens(SubSeq(line, n + 1, Len(line)))

\* The decimal digits of a non-negative integer, with an optional plus sign.
IsNonNegativeInteger(t) ==
  LET d == IF Len(t) > 0 /\ t[1] = 43 THEN Tail(t) ELSE t
  IN  Len(d) > 0 /\ \A i \in 1..Len(d) : d[i] >= 48 /\ d[i] <= 57

IntegerValue(t) ==
  digits_value(IF Len(t) > 0 /\ t[1] = 43 THEN Tail(t) ELSE t)

\* The places of the spaces of a line, and its first two.
Spaces(line) == {i \in 1..Len(line) : line[i] = 32}

FirstSpace(line) == CHOOSE i \in Spaces(line) : \A j \in Spaces(line) : i <= j

SecondSpace(line) ==
  CHOOSE i \in Spaces(line) \ {FirstSpace(line)} :
    \A j \in Spaces(line) \ {FirstSpace(line)} : i <= j

ErrorIs(result, kind, msg) ==
  ~result.ok /\ result.kind = kind /\ result.msg = msg

----------------------------------------------------------------------------
(* C1 *)

\* C1 (as claimed): whenever to_string has returned for a Request (here: one
\* that RequestBuilder::build returned) whose body is present, whatever its
\* bytes, the output ends with "Connection: close\r\n" and then
\* "Content-Length: N\r\n\r\n" followed by exactly the N body bytes.
C1_ContentLengthForEveryBody ==
  (obj = "RequestBuilder" /\ ToStringReturned /\ HasRequest
     /\ is_some(TheRequest.body)) =>
    LET body == unwrap(TheRequest.body)
    IN  ends_with(unwrap(out).val,
                  CONNECTION_CLOSE \o CONTENT_LENGTH_COLON \o fmt_uint(Len(body))
                    \o CRLF \o CRLF \o body)

----------------------------------------------------------------------------
(* C2 *)

\* C2 (as claimed): a successful ResponseBuilder::build on a status line
\* "<protocol> <code> <reason...>" (three tokens or more) gives status_code the
\* integer value of the second token of the status line, and a status text
\* that is only the reason: the tokens after the protocol and the code,
\* rejoined with single spaces.
C2_ReasonTextOnly ==
  (ResponseBuilt /\ HasResponse
     /\ Len(WsTokens(unwrap(respb.status_line))) >= 3) =>
    LET tokens == WsTokens(unwrap(respb.status_line))
    IN  /\ Response_status_code(TheResponse) = IntegerValue(tokens[2])
        /\ Response_status_line(TheResponse)
             = join(SubSeq(tokens, 3, Len(tokens)), SP)

\* C2 (amended): a successful ResponseBuilder::build on a status line
\* "<protocol> <code> <rest>" (cut at its first two spaces) gives status_code
\* the integer value of <code>, and status_line() is the line after the
\* protocol and its space: "<code> <rest>", the code included and the rest
\* exactly as given.
C2_StatusLineKeepsCode ==
  (ResponseBuilt /\ HasResponse) =>
    LET line == unwrap(respb.status_line)
        code == SubSeq(line, FirstSpace(line) + 1, SecondSpace(line) - 1)
    IN  /\ Cardinality(Spaces(line)) >= 2
        /\ IsNonNegativeInteger(code)
        /\ Response_status_code(TheResponse) = IntegerValue(code)
        /\ Response_status_line(TheResponse)
             = SubSeq(line, FirstSpace(line) + 1, Len(line))
        /\ starts_with(Response_status_line(TheResponse), code \o SP)

\* "HTTP/1.1 200 OK" was built: status_code 200 and status_line() "200 OK".
C2_Witness ==
  /\ ResponseBuilt /\ HasResponse
  /\ unwrap(respb.status_line) = HTTP_1_1 \o <<32, 50, 48, 48, 32, 79, 75>>
  /\ Response_status_code(TheResponse) = 200
  /\ Response_status_line(TheResponse) = <<50, 48, 48, 32, 79, 75>>

----------------------------------------------------------------------------
(* C3 *)

HRPE == "HttpResponseParseError"

\* C3 (as claimed): build classifies the status line by its
\* whitespace-separated tokens: none set, "No Status Line"; fewer than 3
\* tokens, malformed status line; a first token not starting with "HTTP/",
\* unknown protocol; a second token that is no non-negative integer, malformed
\* status code; and a Response otherwise.
C3_ClassifiedByTokens ==
  ResponseBuilt =>
    LET r == unwrap(resp)
    IN  IF is_none(respb.status_line) THEN ErrorIs(r, HRPE, "No Status Line")
        ELSE
          LET tokens == WsTokens(unwrap(respb.status_line))
          IN  IF Len(tokens) < 3
              THEN ErrorIs(r, HRPE, "Malformed Status Line: ")
              ELSE IF ~starts_with(tokens[1], HTTP_SLASH)
              THEN ErrorIs(r, HRPE, "Unkown Protocol in Status Line: ")
              ELSE IF ~IsNonNegativeInteger(tokens[2])
              THEN ErrorIs(r, HRPE, "Malformed status code: ")
              ELSE r.ok

\* The text of a usize: a non-negative integer no more than usize::MAX.
IsUsizeText(t) ==
  /\ IsNonNegativeInteger(t)
  /\ fits_usize(IF t[1] = 43 THEN Tail(t) ELSE t)

\* C3 (amended): build classifies the status line by the parts it is cut into
\* at its first two single spaces (the third part is the remainder, and may be
\* empty): none set, "No Status Line"; fewer than two spaces, malformed status
\* line; a first part not starting with "HTTP/", unknown protocol; a second
\* part that is not the text of a usize, malformed status code; each error
\* carries the line, and otherwise, and only then, a Response is returned.
C3_ClassifiedByParts ==
  ResponseBuilt =>
    LET r == unwrap(resp)
    IN  IF is_none(respb.status_line)
        THEN ErrorIs(r, HRPE, "No Status Line") /\ r.arg = << >>
        ELSE
          LET line == unwrap(respb.status_line)
          IN  IF Cardinality(Spaces(line)) < 2
              THEN ErrorIs(r, HRPE, "Malformed Status Line: ") /\ r.arg = line
              ELSE IF ~starts_with(SubSeq(line, 1, FirstSpace(line) - 1), HTTP_SLASH)
              THEN ErrorIs(r, HRPE, "Unkown Protocol in Status Line: ")
                     /\ r.arg = line
              ELSE IF ~IsUsizeText(SubSeq(line, FirstSpace(line) + 1,
                                          SecondSpace(line) - 1))
              THEN ErrorIs(r, HRPE, "Malformed status code: ") /\ r.arg = line
              ELSE r.ok

\* "FTP/1 abc OK", wrong in its protocol and in its code, was built: the
\* protocol is reported.
C3_Witness ==
  /\ ResponseBuilt
  /\ respb.status_line = Some(<<70, 84, 80, 47, 49, 32, 97, 98, 99, 32, 79, 75>>)
  /\ ErrorIs(unwrap(resp), HRPE, "Unkown Protocol in Status Line: ")

----------------------------------------------------------------------------
(* C4 *)

\* "<method> <target> <version>\r\n"
RequestLine(r) ==
  r.http_method \o SP \o r.request_uri \o SP \o r.http_version \o CRLF

\* Each header line, in order, each terminated by "\r\n".
RECURSIVE HeaderBlock(_)
HeaderBlock(lines) ==
  IF Len(lines) = 0 THEN << >>
  ELSE lines[1] \o CRLF \o HeaderBlock(Tail(lines))

\* The host of the URL of the latest new or set_url call is a DNS name.
UrlHostIsName ==
  url_log \in {"http://localhost/", "https://localhost/", "foo://bar/"}

\* The host of that URL is an IP literal.
UrlHostIsIp == url_log \in {"http://127.0.0.1:8080/p?q", "http://[::1]/path"}

\* C4: for a Request that RequestBuilder::build returned, to_string gives the
\* request line and all header lines (User-Agent last), then
\* "Host: <host>\r\n" exactly when the URL's host is a DNS name and nothing
\* when it is an IP literal, and directly after that "Connection: close\r\n".
C4_HostLineIffNamedHost ==
  (RequestBuilt /\ HasRequest /\ ToStringReturned) =>
    LET r == TheRequest
        wire == unwrap(out).val
        before == RequestLine(r) \o HeaderBlock(r.headers)
        host_line == HOST_COLON \o r.host \o CRLF
    IN  /\ UrlHostIsName \/ UrlHostIsIp
        /\ UrlHostIsName =>
             starts_with(wire, before \o host_line \o CONNECTION_CLOSE)
        /\ UrlHostIsIp => starts_with(wire, before \o CONNECTION_CLOSE)
        /\ r.headers[Len(r.headers)] = USER_AGENT_COLON \o rb.user_agent

\* A Request built for the IPv6 literal [::1], with a header added, was
\* serialized.
C4_Witness ==
  /\ RequestBuilt /\ HasRequest /\ ToStringReturned
  /\ url_log = "http://[::1]/path"
  /\ Len(TheRequest.headers) = 2

----------------------------------------------------------------------------
(* C5 *)

\* C5: the headers of the Request build returns are the lines given to
\* add_header and add_headers, in call order, then one "User-Agent: <ua>" line,
\* <ua> being the argument of the latest set_user_agent call or the default.
C5_HeadersInCallOrderThenUserAgent ==
  (RequestBuilt /\ HasRequest) =>
    TheRequest.headers =
      added \o <<USER_AGENT_COLON
                   \o (IF is_some(ua_log) THEN unwrap(ua_log) ELSE USER_AGENT)>>

\* add_header("A: b"), add_headers(["X: y", "A: b"]) and set_user_agent were
\* called, and build returned a Request.
C5_Witness ==
  /\ RequestBuilt /\ HasRequest
  /\ added = <<H1, H2, H1>>
  /\ is_some(ua_log)

----------------------------------------------------------------------------
(* C6 *)

\* C6: for a Request with no body, to_string is exactly the request line, the
\* header lines in order each ended by "\r\n", the Host line if the host is
\* named, "Connection: close\r\n" and a final "\r\n"; with no headers there is
\* no blank line after the request line.
C6_NoBodySerialization ==
  (HasRequest /\ ToStringReturned /\ is_none(TheRequest.body)) =>
    LET r == TheRequest
        wire == unwrap(out).val
    IN  /\ wire = RequestLine(r) \o HeaderBlock(r.headers)
                    \o (IF r.is_domain THEN HOST_COLON \o r.host \o CRLF ELSE << >>)
                    \o CONNECTION_CLOSE \o CRLF
        /\ ends_with(wire, CONNECTION_CLOSE \o CRLF)
        /\ \A i \in 1..Len(wire) :
             ~starts_with(SubSeq(wire, i, Len(wire)), CONTENT_LENGTH_COLON)

\* A Request with no header and no body was serialized.
C6_Witness ==
  /\ HasRequest /\ ToStringReturned
  /\ is_none(TheRequest.body)
  /\ TheRequest.headers = << >>

----------------------------------------------------------------------------
(* C7 *)

\* The fields of a Request that come from the URL.
UrlFields(r) ==
  <<r.host, r.port, r.authority, r.scheme, r.request_uri, r.is_domain>>

\* The fields of a Request that come from the other options.
OptionFields(r) == <<r.http_method, r.http_version, r.headers, r.body>>

\* C7: a set_url(u) call stores the parsed u and leaves the method, version,
\* user-agent, headers and body of the builder alone; so build after it gives
\* a Request whose URL fields are those of a fresh builder for u and whose
\* method, version, headers and body are those build gave before the call.
C7_SetUrlChangesOnlyUrl ==
  [][\A u \in Urls :
       RequestBuilder_set_url(u) =>
         LET before == RequestBuilder_build_value(rb)
             after == RequestBuilder_build_value(rb')
             fresh == RequestBuilder_build_value(RequestBuilder_new(u))
         IN  /\ rb'.url = ParseUrl(u)
             /\ rb'.http_method = rb.http_method
             /\ rb'.http_version = rb.http_version
             /\ rb'.user_agent = rb.user_agent
             /\ rb'.headers = rb.headers
             /\ rb'.body = rb.body
             /\ after.ok = fresh.ok
             /\ after.ok => UrlFields(after.val) = UrlFields(fresh.val)
             /\ (after.ok /\ before.ok) =>
                  OptionFields(after.val) = OptionFields(before.val)
             /\ (after.ok /\ HasRequest /\ ~dirty) =>
                  OptionFields(after.val) = OptionFields(TheRequest)]_vars

\* A Request was built for localhost with method POST and a header added, and
\* set_url("http://[::1]/path") was called after that build.
C7_Witness ==
  /\ obj = "RequestBuilder" /\ HasRequest /\ dirty
  /\ TheRequest.host = LOCALHOST
  /\ TheRequest.http_method = POST
  /\ Len(TheRequest.headers) = 2
  /\ url_log = "http://[::1]/path"
  /\ rb.url = ParseUrl("http://[::1]/path")
  /\ rb.http_method = POST
  /\ Len(rb.headers) = 1

----------------------------------------------------------------------------
(* C8 *)

\* C8: a build call, failed or not, leaves its builder as it was; a build with
\* no setter call since the last build returns what that build returned; and
\* a setter call changes no value a build has returned.
C8_BuildIsPure ==
  [][/\ RequestBuilder_build =>
          /\ rb' = rb
          /\ (is_some(req) /\ ~dirty) => req' = req
     /\ ResponseBuilder_build =>
          /\ respb' = respb
          /\ (is_some(resp) /\ ~dirty) => resp' = resp
     /\ calls' # calls => (req' = req /\ resp' = resp)]_vars

\* build returned a Request with the User-Agent line after the added header,
\* and the builder still holds the added header alone.
C8_Witness ==
  /\ RequestBuilt /\ HasRequest
  /\ Len(rb.headers) = 1
  /\ Len(TheRequest.headers) = 2

----------------------------------------------------------------------------
(* C9 *)

\* C9: what build returns is decided by the URL of the latest new or set_url
\* call: UrlParseError when it does not parse; else OpaqueUrlError("Unable to
\* find host") when it has no host; else OpaqueUrlError("Unable to determine a
\* port") when it has no port and its scheme has no default; else a Request
\* carrying the builder's method, version and body, whatever build returned
\* before.
C9_BuildErrorsByUrl ==
  RequestBuilt =>
    LET r == unwrap(req)
    IN  IF url_log = "not_an_url"
        THEN ErrorIs(r, "UrlParseError", "relative URL without a base")
        ELSE IF url_log = "mailto:a@b"
        THEN ErrorIs(r, "OpaqueUrlError", "Unable to find host")
        ELSE IF url_log = "foo://bar/"
        THEN ErrorIs(r, "OpaqueUrlError", "Unable to determine a port")
        ELSE /\ r.ok
             /\ r.val.http_method = rb.http_method
             /\ r.val.http_version = rb.http_version
             /\ r.val.body = rb.body
             /\ r.val.authority = r.val.host \o <<58>> \o fmt_uint(r.val.port)

\* build was called on "mailto:a@b", which has neither host nor port: the
\* missing host is reported.
C9_Witness ==
  /\ RequestBuilt
  /\ url_log = "mailto:a@b"
  /\ ErrorIs(unwrap(req), "OpaqueUrlError", "Unable to find host")

----------------------------------------------------------------------------
(* C10 *)

\* The payloads of the model that are valid UTF-8: "", "{}", "é", "hé", "€{".
ValidUtf8 ==
  {<< >>, <<123, 125>>, <<195, 169>>, <<104, 195, 169>>, <<226, 130, 172, 123>>}

BodyAsStringReturned == is_some(out) /\ unwrap(out).call = "body_as_string"

\* C10: body_as_string returns, on a Response, "" for no body, and on a
\* Request, Ok(None) for no body, which is not the Ok(Some("")) of an empty
\* body; on both, the text of a body that is valid UTF-8 and EncodingError for
\* one that is not; and the call leaves the Request and the Response as they
\* were.
C10_BodyAsString ==
  /\ [](BodyAsStringReturned =>
          LET got == unwrap(out).val
              body == IF obj = "ResponseBuilder"
                      THEN TheResponse.body ELSE TheRequest.body
          IN  IF is_none(body)
              THEN got = IF obj = "ResponseBuilder" THEN Ok(<< >>) ELSE Ok(None)
              ELSE IF unwrap(body) \in ValidUtf8
              THEN got = IF obj = "ResponseBuilder"
                         THEN Ok(unwrap(body)) ELSE Ok(Some(unwrap(body)))
              ELSE ErrorIs(got, "EncodingError", "Cannot decode utf8: "))
  /\ Ok(None) # Ok(Some(<< >>))
  /\ [][(Call_Request_body_as_string \/ Call_Response_body_as_string) =>
          (req' = req /\ resp' = resp)]_vars

\* body_as_string returned Ok(None) for a Request with no body.
C10_Witness ==
  /\ obj # "ResponseBuilder" /\ HasRequest /\ BodyAsStringReturned
  /\ is_none(TheRequest.body)
  /\ unwrap(out).val = Ok(None)

----------------------------------------------------------------------------
(* C11 *)

\* C11: a Response that ResponseBuilder::build returns reflects the calls made
\* so far: its status text and status code are those of the line given to the
\* latest set_status_line call, its headers are the lines given to add_header
\* in call order, and its body is the bytes given to the latest set_body call,
\* or absent when set_body was never called.
C11_ResponseReflectsCalls ==
  (ResponseBuilt /\ HasResponse) =>
    LET line == unwrap(resp_log.status_line)
    IN  /\ is_some(resp_log.status_line)
        /\ Cardinality(Spaces(line)) >= 2
        /\ Response_status_line(TheResponse)
             = SubSeq(line, FirstSpace(line) + 1, Len(line))
        /\ Response_status_code(TheResponse)
             = IntegerValue(SubSeq(line, FirstSpace(line) + 1, SecondSpace(line) - 1))
        /\ TheResponse.headers = added
        /\ TheResponse.body = resp_log.body

\* set_status_line was called twice, the second time with "HTTP/1.1 200 OK",
\* and add_header once; build returned a Response with status code 200, that
\* header and no body.
C11_Witness ==
  /\ ResponseBuilt /\ HasResponse
  /\ Len(added) = 1
  /\ is_none(resp_log.body)
  /\ calls > Len(added) + 1
  /\ resp_log.status_line = Some(HTTP_1_1 \o <<32, 50, 48, 48, 32, 79, 75>>)
  /\ Response_status_code(TheResponse) = 200
  /\ TheResponse.headers = added

====
